---- MODULE Spec2Model ----
(***************************************************************************)
(* Model of the three scripts of FinancialForecastingDashboard:            *)
(*   scripts/database_setup.py   (create_table, ingest_data, main)         *)
(*   scripts/pipeline.py         (create_dbt_profiles, run_dbt_pipeline)   *)
(*   scripts/run_forecasting.py  (load, fit, publish)                      *)
(* One operating-system process runs at a time; the PostgreSQL database    *)
(* and the file system persist from one process to the next.               *)
(***************************************************************************)
EXTENDS Integers, Sequences, FiniteSets, TLC

\* ---------------------------------------------------------------- bounds
MaxCustomer == 3
MaxMonth == 3
MaxBatch == 2

\* ------------------------------------------------------ program constants
Periods == 24

VARIABLES
  script,        \* which script this process runs
  pc,            \* position of the process in its main()
  env,           \* the process environment: DB_* variable -> unset/empty/set
  exitCode,      \* -1 while running, else the exit status of the process
  failedStage,   \* stage whose failure ended the run ("none" if none)
  raised,        \* class of the exception raised in this run ("none" if none)
  io,            \* kinds of I/O this process has performed
  conn,          \* the psycopg2 connection of main(): none/open/closed
  dataLen,       \* ingest_data: len(data) of the list json.load returned
  idx,           \* ingest_data: number of records already inserted
  pending,       \* rows inserted in the open transaction, not committed
  ingestState,   \* ingest_data call: none/running/committed/failed
  batchBefore,   \* committed rows at the entry of the ingest_data call
  rawExists,     \* raw_saas_metrics exists
  rawSchema,     \* columns of raw_saas_metrics
  rawRows,       \* committed rows of raw_saas_metrics
  profilesYml,   \* ~/.dbt/profiles.yml has been written
  modelFiles,    \* the dbt model files have been written
  dbtState,      \* the dbt child process: idle/running/exited
  dbtRc,         \* exit status of the dbt child process
  dbtDiag,       \* diagnostic text dbt printed
  console,       \* what reached the terminal of the pipeline process
  errOutput,     \* output attribute of the raised CalledProcessError
  completed,     \* "Pipeline execution complete." was printed
  martExists,    \* fact_monthly_revenue exists
  mart,          \* rows of fact_monthly_revenue, ordered by month
  prophet_df,    \* run_forecasting: the frame returned by the loader
  fitEntered,    \* run_prophet_forecast was entered in this run
  forecast,      \* run_forecasting: the frame returned by the fit
  publishState,  \* ingest_forecast_to_db call: none/done/failed
  fcExists,      \* fact_monthly_revenue_forecast exists
  fcRows,        \* rows of fact_monthly_revenue_forecast
  fcBefore       \* the forecast table as it was when this process started

vars == <<script, pc, env, exitCode, failedStage, raised, io, conn, dataLen, idx,
          pending, ingestState, batchBefore, rawExists, rawSchema, rawRows,
          profilesYml, modelFiles, dbtState, dbtRc, dbtDiag, console,
          errOutput, completed, martExists, mart, prophet_df, fitEntered,
          forecast, publishState, fcExists, fcRows, fcBefore>>

procVars == <<script, pc, env, exitCode, failedStage, raised, io>>
setupVars == <<conn, dataLen, idx, pending, ingestState, batchBefore>>
rawVars == <<rawExists, rawSchema, rawRows>>
dbtVars == <<profilesYml, modelFiles, dbtState, dbtRc, dbtDiag, console,
             errOutput, completed>>
martVars == <<martExists, mart>>
fcRunVars == <<prophet_df, fitEntered, forecast, publishState>>
fcTabVars == <<fcExists, fcRows, fcBefore>>

\* ------------------------------------------------------------ environment
EnvVars == {"DB_HOST", "DB_PORT", "DB_NAME", "DB_USER", "DB_PASS"}

AllSet == [v \in EnvVars |-> "set"]

\* The environments a process is started with: everything set, or exactly
\* one variable unset or set to the empty string.
EnvChoices ==
  {AllSet} \cup {[AllSet EXCEPT ![v] = s] : v \in EnvVars, s \in {"unset", "empty"}}

\* all([DB_HOST, DB_PORT, DB_NAME, DB_USER, DB_PASS]): None and "" are falsy.
AllCredentials(e) == \A v \in EnvVars : e[v] = "set"

\* ------------------------------------------------------------------ dates
NoDate == [y |-> 0, m |-> 0, d |-> 0]

\* The i-th subscription start date of the inputs: consecutive months from
\* November 2023, alternately mid-month and first of the month.
InputDate(i) ==
  LET o == 2023 * 12 + 10 + (i - 1)
  IN [y |-> o \div 12, m |-> (o % 12) + 1, d |-> IF i % 2 = 1 THEN 15 ELSE 1]

MonthOrd(dt) == dt.y * 12 + (dt.m - 1)

\* DATE_TRUNC('month', subscription_start_date)
DateTruncMonth(dt) == [dt EXCEPT !.d = 1]

\* -------------------------------------------------------- raw input file
\* A record of the JSON array.  kind "nondict" is an array element that is
\* not an object (record.get raises AttributeError); customer_id 0 stands
\* for a missing customer_id (record.get returns None).
Record(c, i) ==
  [kind |-> "row", customer_id |-> c, subscription_start_date |-> InputDate(i),
   monthly_recurring_revenue |-> 100]

NonDict ==
  [kind |-> "nondict", customer_id |-> 0, subscription_start_date |-> NoDate,
   monthly_recurring_revenue |-> 0]

Records == {Record(c, i) : c \in 0..MaxCustomer, i \in 1..MaxMonth}

RawSchema ==
  <<"customer_id", "subscription_start_date", "monthly_recurring_revenue",
    "churn_date", "plan_type">>

\* customer_id INT PRIMARY KEY: not null and unique among the rows the
\* transaction sees (committed rows and its own pending rows).
PrimaryKeyViolated(rec, rows) ==
  \/ rec.customer_id = 0
  \/ \E r \in rows : r.customer_id = rec.customer_id

\* ------------------------------------------------------- mart and forecast
DateLess(a, b) ==
  \/ a.y < b.y
  \/ a.y = b.y /\ a.m < b.m
  \/ a.y = b.y /\ a.m = b.m /\ a.d < b.d

MinDate(S) == CHOOSE a \in S : \A b \in S : a = b \/ DateLess(a, b)

MaxDate(S) == CHOOSE a \in S : \A b \in S : a = b \/ DateLess(b, a)

RECURSIVE SortDates(_)
SortDates(S) ==
  IF S = {} THEN <<>>
  ELSE LET a == MinDate(S) IN <<a>> \o SortDates(S \ {a})

RECURSIVE SumRevenue(_)
SumRevenue(rows) ==
  IF rows = {} THEN 0
  ELSE LET r == CHOOSE x \in rows : TRUE
       IN r.monthly_recurring_revenue + SumRevenue(rows \ {r})

\* models/marts/fact_monthly_revenue.sql over the staging view of the raw
\* table: one row per truncated month, the revenue summed, ordered by month.
MartOf(rows) ==
  LET months == SortDates({DateTruncMonth(r.subscription_start_date) : r \in rows})
  IN [i \in 1..Len(months) |->
        [subscription_month |-> months[i],
         monthly_recurring_revenue |->
           SumRevenue({r \in rows :
                         DateTruncMonth(r.subscription_start_date) = months[i]})]]

\* pandas MonthBegin: the first day of the month after dt's month.
NextMonthStart(dt) ==
  IF dt.m = 12 THEN [y |-> dt.y + 1, m |-> 1, d |-> 1]
  ELSE [y |-> dt.y, m |-> dt.m + 1, d |-> 1]

\* pd.date_range(start=start, periods=n, freq='MS'): n month starts, the
\* first one being start itself when start is a month start.
RECURSIVE DateRangeMS(_, _)
DateRangeMS(start, n) ==
  IF n = 0 THEN <<>>
  ELSE LET first == IF start.d = 1 THEN start ELSE NextMonthStart(start)
       IN <<first>> \o DateRangeMS(NextMonthStart(first), n - 1)

SeqToSet(s) == {s[i] : i \in 1..Len(s)}

SelectAfter(s, last) == SelectSeq(s, LAMBDA x : DateLess(last, x))

\* Variant: the date range is built with periods dates instead of
\* periods + 1, so the last month itself uses up one of them.
MakeFutureDataframeShort(history, periods) ==
  LET last_date == MaxDate(SeqToSet(history))
      dates == SelectAfter(DateRangeMS(last_date, periods), last_date)
  IN history \o SubSeq(dates, 1, IF Len(dates) < periods THEN Len(dates) ELSE periods)

\* Prophet.make_future_dataframe(periods, freq='MS', include_history=True)
MakeFutureDataframe(history, periods) ==
  LET last_date == MaxDate(SeqToSet(history))
      dates == SelectAfter(DateRangeMS(last_date, periods + 1), last_date)
  IN history \o SubSeq(dates, 1, IF Len(dates) < periods THEN Len(dates) ELSE periods)

\* The fitted values are not modelled: one fit yields one level, drawn by
\* the caller, for the point estimate and its band.
YhatLevels == {100, 150}

Predict(future, level) ==
  [i \in 1..Len(future) |->
     [ds |-> future[i], trend |-> level, yhat |-> level,
      yhat_lower |-> level - 10, yhat_upper |-> level + 10]]

\* forecast[['ds','yhat','yhat_lower','yhat_upper']] with yhat and ds renamed
FinalForecastDf(fc) ==
  [i \in 1..Len(fc) |->
     [subscription_month |-> fc[i].ds, forecasted_mrr |-> fc[i].yhat,
      yhat_lower |-> fc[i].yhat_lower, yhat_upper |-> fc[i].yhat_upper]]

\* rename to ds / y; tz_localize(None) leaves naive dates as they are
ProphetDf(m) ==
  [i \in 1..Len(m) |->
     [ds |-> m[i].subscription_month, y |-> m[i].monthly_recurring_revenue]]

Scripts == {"database_setup", "pipeline", "run_forecasting"}

\* ----------------------------------------------------------- process start
\* No process is running: the state of a process (its locals, its exit
\* status, what it raised) is gone; the database and the files remain.
NoProcess ==
  /\ script = "none"
  /\ pc = "idle"
  /\ env = AllSet
  /\ exitCode = -1
  /\ failedStage = "none"
  /\ raised = "none"
  /\ io = {}
  /\ conn = "none"
  /\ dataLen = 0
  /\ idx = 0
  /\ pending = {}
  /\ ingestState = "none"
  /\ batchBefore = {}
  /\ dbtState = "idle"
  /\ dbtRc = 0
  /\ dbtDiag = "none"
  /\ console = "none"
  /\ errOutput = "none"
  /\ completed = FALSE
  /\ prophet_df = <<>>
  /\ fitEntered = FALSE
  /\ forecast = <<>>
  /\ publishState = "none"

\* Before the first run: an empty database, no generated file.
Init ==
  /\ NoProcess
  /\ rawExists = FALSE
  /\ rawSchema = <<>>
  /\ rawRows = {}
  /\ profilesYml = FALSE
  /\ modelFiles = FALSE
  /\ martExists = FALSE
  /\ mart = <<>>
  /\ fcExists = FALSE
  /\ fcRows = <<>>
  /\ fcBefore = [exists |-> FALSE, rows |-> <<>>]

\* One of the scripts is invoked (if __name__ == "__main__": main()) with
\* some environment.
StartProcess ==
  /\ pc = "idle"
  /\ \E s \in Scripts, e \in EnvChoices :
       /\ script' = s
       /\ env' = e
  /\ pc' = "env"
  /\ fcBefore' = [exists |-> fcExists, rows |-> fcRows]
  /\ UNCHANGED <<exitCode, failedStage, raised, io, setupVars, rawVars, dbtVars,
                 martVars, fcRunVars, fcExists, fcRows>>

\* The interpreter has ended with its exit status; the process is gone.
ProcessExit ==
  /\ pc = "done"
  /\ script' = "none"
  /\ pc' = "idle"
  /\ env' = AllSet
  /\ exitCode' = -1
  /\ failedStage' = "none"
  /\ raised' = "none"
  /\ io' = {}
  /\ conn' = "none"
  /\ dataLen' = 0
  /\ idx' = 0
  /\ pending' = {}
  /\ ingestState' = "none"
  /\ batchBefore' = {}
  /\ dbtState' = "idle"
  /\ dbtRc' = 0
  /\ dbtDiag' = "none"
  /\ console' = "none"
  /\ errOutput' = "none"
  /\ completed' = FALSE
  /\ prophet_df' = <<>>
  /\ fitEntered' = FALSE
  /\ forecast' = <<>>
  /\ publishState' = "none"
  /\ fcBefore' = [exists |-> fcExists, rows |-> fcRows]
  /\ UNCHANGED <<rawVars, profilesYml, modelFiles, martVars, fcExists, fcRows>>

\* ------------------------------------------------- scripts/database_setup.py
\* main, the environment check: a missing variable prints a message and
\* returns, so the interpreter ends with status 0.
SetupCheckEnv ==
  /\ script = "database_setup" /\ pc = "env"
  /\ \/ /\ AllCredentials(env)
        /\ pc' = "connect"
        /\ UNCHANGED <<exitCode, failedStage>>
     \/ /\ ~AllCredentials(env)
        /\ pc' = "done"
        /\ exitCode' = 0
        /\ failedStage' = "config"
  /\ UNCHANGED <<script, env, raised, io, setupVars, rawVars, dbtVars, martVars,
                 fcRunVars, fcTabVars>>

\* main, psycopg2.connect: an OperationalError is printed by the handler.
SetupConnect ==
  /\ script = "database_setup" /\ pc = "connect"
  /\ io' = io \cup {"network"}
  /\ \/ /\ conn' = "open"
        /\ pc' = "create_table"
        /\ UNCHANGED <<failedStage, raised>>
     \/ /\ conn' = "none"
        /\ raised' = "OperationalError"
        /\ failedStage' = "connect"
        /\ pc' = "finally"
  /\ UNCHANGED <<script, env, exitCode, dataLen, idx, pending, ingestState,
                 batchBefore, rawVars, dbtVars, martVars, fcRunVars, fcTabVars>>

\* Variant: DROP TABLE IF EXISTS followed by CREATE TABLE.
CreateTableDropFirst ==
  /\ script = "database_setup" /\ pc = "create_table"
  /\ rawExists' = TRUE
  /\ rawSchema' = RawSchema
  /\ rawRows' = {}
  /\ pc' = "ingest_open"
  /\ UNCHANGED <<script, env, exitCode, failedStage, raised, io, setupVars,
                 dbtVars, martVars, fcRunVars, fcTabVars>>

\* create_table: CREATE TABLE IF NOT EXISTS, then commit.
CreateTable ==
  /\ script = "database_setup" /\ pc = "create_table"
  /\ IF rawExists
       THEN UNCHANGED rawVars
       ELSE /\ rawExists' = TRUE
            /\ rawSchema' = RawSchema
            /\ rawRows' = {}
  /\ pc' = "ingest_open"
  /\ UNCHANGED <<script, env, exitCode, failedStage, raised, io, setupVars,
                 dbtVars, martVars, fcRunVars, fcTabVars>>

\* ingest_data, open and json.load.  FileNotFoundError is caught by
\* ingest_data (rollback, raise); a JSONDecodeError is not caught there and
\* reaches main's handler.  The elements of the array are drawn as the loop
\* reaches them.
IngestOpen ==
  /\ script = "database_setup" /\ pc = "ingest_open"
  /\ io' = io \cup {"file"}
  /\ batchBefore' = rawRows
  /\ idx' = 0
  /\ \/ /\ raised' = "FileNotFoundError"
        /\ pending' = {}
        /\ ingestState' = "failed"
        /\ failedStage' = "ingest"
        /\ pc' = "finally"
        /\ UNCHANGED dataLen
     \/ /\ raised' = "JSONDecodeError"
        /\ ingestState' = "failed"
        /\ failedStage' = "ingest"
        /\ pc' = "finally"
        /\ UNCHANGED <<pending, dataLen>>
     \/ /\ \E n \in 0..MaxBatch : dataLen' = n
        /\ ingestState' = "running"
        /\ pc' = "ingest_loop"
        /\ UNCHANGED <<pending, raised, failedStage>>
  /\ UNCHANGED <<script, env, exitCode, conn, rawVars, dbtVars, martVars,
                 fcRunVars, fcTabVars>>

\* Variant: the connection is in autocommit mode, every insert is committed
\* as it is executed.
IngestInsertAutocommit ==
  /\ script = "database_setup" /\ pc = "ingest_loop" /\ idx < dataLen
  /\ \E rec \in Records \cup {NonDict} :
       \/ /\ rec.kind = "nondict"
          /\ raised' = "AttributeError"
          /\ ingestState' = "failed"
          /\ failedStage' = "ingest"
          /\ pc' = "finally"
          /\ UNCHANGED <<rawRows, idx>>
       \/ /\ rec.kind = "row"
          /\ PrimaryKeyViolated(rec, rawRows)
          /\ raised' = "IntegrityError"
          /\ ingestState' = "failed"
          /\ failedStage' = "ingest"
          /\ pc' = "finally"
          /\ UNCHANGED <<rawRows, idx>>
       \/ /\ rec.kind = "row"
          /\ ~PrimaryKeyViolated(rec, rawRows)
          /\ rawRows' = rawRows \cup {rec}
          /\ idx' = idx + 1
          /\ UNCHANGED <<raised, ingestState, failedStage, pc>>
  /\ UNCHANGED <<script, env, exitCode, io, conn, dataLen, pending, batchBefore,
                 rawExists, rawSchema, dbtVars, martVars, fcRunVars, fcTabVars>>

\* ingest_data, one iteration of the loop: cursor.execute(insert_query, ...).
\* A primary-key violation is a psycopg2.Error: rollback, raise.  An element
\* that is no object raises AttributeError, which ingest_data does not catch.
IngestInsert ==
  /\ script = "database_setup" /\ pc = "ingest_loop" /\ idx < dataLen
  /\ \E rec \in Records \cup {NonDict} :
       \/ /\ rec.kind = "nondict"
          /\ raised' = "AttributeError"
          /\ ingestState' = "failed"
          /\ failedStage' = "ingest"
          /\ pc' = "finally"
          /\ UNCHANGED <<pending, idx>>
       \/ /\ rec.kind = "row"
          /\ PrimaryKeyViolated(rec, rawRows \cup pending)
          /\ raised' = "IntegrityError"
          /\ pending' = {}
          /\ ingestState' = "failed"
          /\ failedStage' = "ingest"
          /\ pc' = "finally"
          /\ UNCHANGED idx
       \/ /\ rec.kind = "row"
          /\ ~PrimaryKeyViolated(rec, rawRows \cup pending)
          /\ pending' = pending \cup {rec}
          /\ idx' = idx + 1
          /\ UNCHANGED <<raised, ingestState, failedStage, pc>>
  /\ UNCHANGED <<script, env, exitCode, io, conn, dataLen, batchBefore, rawVars,
                 dbtVars, martVars, fcRunVars, fcTabVars>>

\* ingest_data, after the loop: conn.commit() makes the batch visible.
IngestCommit ==
  /\ script = "database_setup" /\ pc = "ingest_loop" /\ idx = dataLen
  /\ rawRows' = rawRows \cup pending
  /\ pending' = {}
  /\ ingestState' = "committed"
  /\ pc' = "finally"
  /\ UNCHANGED <<script, env, exitCode, failedStage, raised, io, conn, dataLen,
                 idx, batchBefore, rawExists, rawSchema, dbtVars, martVars,
                 fcRunVars, fcTabVars>>

\* main, the finally clause: conn.close() discards an open transaction.
\* Every handler of main only prints, so the status is 0.
SetupFinally ==
  /\ script = "database_setup" /\ pc = "finally"
  /\ conn' = IF conn = "open" THEN "closed" ELSE conn
  /\ pending' = {}
  /\ exitCode' = 0
  /\ pc' = "done"
  /\ UNCHANGED <<script, env, failedStage, raised, io, dataLen, idx, ingestState,
                 batchBefore, rawVars, dbtVars, martVars, fcRunVars, fcTabVars>>

\* ------------------------------------------------------- scripts/pipeline.py
\* main, the environment check: sys.exit(1) on a missing variable.
PipelineCheckEnv ==
  /\ script = "pipeline" /\ pc = "env"
  /\ \/ /\ AllCredentials(env)
        /\ pc' = "profiles"
        /\ UNCHANGED <<exitCode, failedStage>>
     \/ /\ ~AllCredentials(env)
        /\ pc' = "done"
        /\ exitCode' = 1
        /\ failedStage' = "config"
  /\ UNCHANGED <<script, env, raised, io, setupVars, rawVars, dbtVars, martVars,
                 fcRunVars, fcTabVars>>

\* create_dbt_profiles: makedirs and write ~/.dbt/profiles.yml.
CreateDbtProfiles ==
  /\ script = "pipeline" /\ pc = "profiles"
  /\ profilesYml' = TRUE
  /\ io' = io \cup {"file"}
  /\ pc' = "project_files"
  /\ UNCHANGED <<script, env, exitCode, failedStage, raised, setupVars, rawVars,
                 modelFiles, dbtState, dbtRc, dbtDiag, console, errOutput,
                 completed, martVars, fcRunVars, fcTabVars>>

\* run_dbt_pipeline up to the subprocess call: the model files are written,
\* then dbt_project.yml is read; if the project file is absent the
\* FileNotFoundError is uncaught and the interpreter ends with status 1.
WriteProjectFiles ==
  /\ script = "pipeline" /\ pc = "project_files"
  /\ modelFiles' = TRUE
  /\ io' = io \cup {"file"}
  /\ \/ /\ pc' = "dbt_start"
        /\ UNCHANGED <<exitCode, failedStage, raised>>
     \/ /\ raised' = "FileNotFoundError"
        /\ failedStage' = "transformation"
        /\ exitCode' = 1
        /\ pc' = "done"
  /\ UNCHANGED <<script, env, setupVars, rawVars, profilesYml, dbtState, dbtRc,
                 dbtDiag, console, errOutput, completed, martVars, fcRunVars,
                 fcTabVars>>

\* subprocess.run starts the dbt child process.
DbtStart ==
  /\ script = "pipeline" /\ pc = "dbt_start"
  /\ dbtState' = "running"
  /\ io' = io \cup {"subprocess"}
  /\ pc' = "dbt_wait"
  /\ UNCHANGED <<script, env, exitCode, failedStage, raised, setupVars, rawVars,
                 profilesYml, modelFiles, dbtRc, dbtDiag, console, errOutput,
                 completed, martVars, fcRunVars, fcTabVars>>

\* The dbt child process runs the models and exits.  Its output goes to the
\* inherited stdout/stderr: subprocess.run is called without capture.
DbtRun ==
  /\ dbtState = "running"
  /\ dbtState' = "exited"
  /\ \/ /\ rawExists
        /\ dbtRc' = 0
        /\ dbtDiag' = "Completed successfully"
        /\ martExists' = TRUE
        /\ mart' = MartOf(rawRows)
     \/ /\ \E rc \in {1, 2} : dbtRc' = rc
        /\ dbtDiag' = IF rawExists THEN "Database Error" ELSE "relation does not exist"
        /\ UNCHANGED martVars
  /\ console' = dbtDiag'
  /\ UNCHANGED <<procVars, setupVars, rawVars, profilesYml, modelFiles, errOutput,
                 completed, fcRunVars, fcTabVars>>

\* subprocess.run(..., check=True) returns once the child has exited: a
\* non-zero status raises CalledProcessError, whose output and stderr are
\* None because nothing was captured; nobody catches it.
RunDbtReturn ==
  /\ script = "pipeline" /\ pc = "dbt_wait" /\ dbtState = "exited"
  /\ \/ /\ dbtRc = 0
        /\ completed' = TRUE
        /\ exitCode' = 0
        /\ UNCHANGED <<raised, failedStage, errOutput>>
     \/ /\ dbtRc # 0
        /\ raised' = "CalledProcessError"
        /\ errOutput' = "none"
        /\ failedStage' = "transformation"
        /\ exitCode' = 1
        /\ UNCHANGED completed
  /\ pc' = "done"
  /\ UNCHANGED <<script, env, io, setupVars, rawVars, profilesYml, modelFiles,
                 dbtState, dbtRc, dbtDiag, console, martVars, fcRunVars, fcTabVars>>

\* ------------------------------------------------ scripts/run_forecasting.py
\* get_db_credentials: sys.exit(1) on a missing variable.
GetDbCredentials ==
  /\ script = "run_forecasting" /\ pc = "env"
  /\ \/ /\ AllCredentials(env)
        /\ pc' = "connect"
        /\ UNCHANGED <<exitCode, failedStage>>
     \/ /\ ~AllCredentials(env)
        /\ pc' = "done"
        /\ exitCode' = 1
        /\ failedStage' = "config"
  /\ UNCHANGED <<script, env, raised, io, setupVars, rawVars, dbtVars, martVars,
                 fcRunVars, fcTabVars>>

\* main, psycopg2.connect; any exception goes to the handler, which calls
\* sys.exit(1), and then to the finally clause.
ForecastConnect ==
  /\ script = "run_forecasting" /\ pc = "connect"
  /\ io' = io \cup {"network"}
  /\ \/ /\ conn' = "open"
        /\ pc' = "fetch"
        /\ UNCHANGED <<failedStage, raised>>
     \/ /\ conn' = "none"
        /\ raised' = "OperationalError"
        /\ failedStage' = "connect"
        /\ pc' = "finally"
  /\ UNCHANGED <<script, env, exitCode, dataLen, idx, pending, ingestState,
                 batchBefore, rawVars, dbtVars, martVars, fcRunVars, fcTabVars>>

\* Variant: the loader clears the forecast table before it reads the mart.
FetchAndPrepareDataClearsForecast ==
  /\ script = "run_forecasting" /\ pc = "fetch"
  /\ fcExists' = TRUE
  /\ fcRows' = <<>>
  /\ \/ /\ martExists
        /\ prophet_df' = ProphetDf(mart)
        /\ pc' = "fit"
        /\ UNCHANGED <<failedStage, raised>>
     \/ /\ ~martExists
        /\ raised' = "DatabaseError"
        /\ failedStage' = "load"
        /\ pc' = "finally"
        /\ UNCHANGED prophet_df
  /\ UNCHANGED <<script, env, exitCode, io, setupVars, rawVars, dbtVars, martVars,
                 fitEntered, forecast, publishState, fcBefore>>

\* fetch_and_prepare_data: pd.read_sql fails when the mart table is absent;
\* otherwise the frame is returned whatever its number of rows.
FetchAndPrepareData ==
  /\ script = "run_forecasting" /\ pc = "fetch"
  /\ \/ /\ martExists
        /\ prophet_df' = ProphetDf(mart)
        /\ pc' = "fit"
        /\ UNCHANGED <<failedStage, raised>>
     \/ /\ ~martExists
        /\ raised' = "DatabaseError"
        /\ failedStage' = "load"
        /\ pc' = "finally"
        /\ UNCHANGED prophet_df
  /\ UNCHANGED <<script, env, exitCode, io, setupVars, rawVars, dbtVars, martVars,
                 fitEntered, forecast, publishState, fcTabVars>>

\* run_prophet_forecast: Prophet.fit raises ValueError on a frame of fewer
\* than two rows; otherwise make_future_dataframe and predict.
RunProphetForecast ==
  /\ script = "run_forecasting" /\ pc = "fit"
  /\ fitEntered' = TRUE
  /\ \/ /\ Len(prophet_df) < 2
        /\ raised' = "ValueError"
        /\ failedStage' = "fit"
        /\ pc' = "finally"
        /\ UNCHANGED forecast
     \/ /\ Len(prophet_df) >= 2
        /\ \E level \in YhatLevels :
             forecast' =
               Predict(MakeFutureDataframe([i \in 1..Len(prophet_df) |-> prophet_df[i].ds],
                                           Periods), level)
        /\ pc' = "publish"
        /\ UNCHANGED <<failedStage, raised>>
  /\ UNCHANGED <<script, env, exitCode, io, setupVars, rawVars, dbtVars, martVars,
                 prophet_df, publishState, fcTabVars>>

\* Variant: to_sql(if_exists='append').
IngestForecastToDbAppend ==
  /\ script = "run_forecasting" /\ pc = "publish"
  /\ io' = io \cup {"network"}
  /\ \/ /\ fcExists' = TRUE
        /\ fcRows' = fcRows \o FinalForecastDf(forecast)
        /\ publishState' = "done"
        /\ UNCHANGED <<failedStage, raised>>
     \/ /\ publishState' = "failed"
        /\ raised' = "SQLAlchemyError"
        /\ failedStage' = "publish"
        /\ UNCHANGED <<fcExists, fcRows>>
  /\ pc' = "finally"
  /\ UNCHANGED <<script, env, exitCode, setupVars, rawVars, dbtVars, martVars,
                 prophet_df, fitEntered, forecast, fcBefore>>

\* ingest_forecast_to_db: to_sql(if_exists='replace') through a new engine.
\* A failure leaves the table as it was (the engine cannot connect) or
\* replaced and empty (the insert fails after the table was recreated).
IngestForecastToDb ==
  /\ script = "run_forecasting" /\ pc = "publish"
  /\ io' = io \cup {"network"}
  /\ \/ /\ fcExists' = TRUE
        /\ fcRows' = FinalForecastDf(forecast)
        /\ publishState' = "done"
        /\ UNCHANGED <<failedStage, raised>>
     \/ /\ publishState' = "failed"
        /\ raised' = "SQLAlchemyError"
        /\ failedStage' = "publish"
        /\ \/ UNCHANGED <<fcExists, fcRows>>
           \/ /\ fcExists' = TRUE
              /\ fcRows' = <<>>
  /\ pc' = "finally"
  /\ UNCHANGED <<script, env, exitCode, setupVars, rawVars, dbtVars, martVars,
                 prophet_df, fitEntered, forecast, fcBefore>>

\* Variant: conn.close() is the last statement of the try block instead of
\* a finally clause, so a run that raised leaves the connection open.
ForecastFinallyCloseOnSuccess ==
  /\ script = "run_forecasting" /\ pc = "finally"
  /\ conn' = IF conn = "open" /\ raised = "none" THEN "closed" ELSE conn
  /\ exitCode' = IF raised = "none" THEN 0 ELSE 1
  /\ pc' = "done"
  /\ UNCHANGED <<script, env, failedStage, raised, io, dataLen, idx, pending,
                 ingestState, batchBefore, rawVars, dbtVars, martVars, fcRunVars,
                 fcTabVars>>

\* main, the handler and the finally clause: the handler's sys.exit(1)
\* raises SystemExit, the finally clause still closes the connection.
ForecastFinally ==
  /\ script = "run_forecasting" /\ pc = "finally"
  /\ conn' = IF conn = "open" THEN "closed" ELSE conn
  /\ exitCode' = IF raised = "none" THEN 0 ELSE 1
  /\ pc' = "done"
  /\ UNCHANGED <<script, env, failedStage, raised, io, dataLen, idx, pending,
                 ingestState, batchBefore, rawVars, dbtVars, martVars, fcRunVars,
                 fcTabVars>>

\* ------------------------------------------------------------ specification
Next ==
  \/ StartProcess
  \/ ProcessExit
  \/ SetupCheckEnv
  \/ SetupConnect
  \/ CreateTable
  \/ IngestOpen
  \/ IngestInsert
  \/ IngestCommit
  \/ SetupFinally
  \/ PipelineCheckEnv
  \/ CreateDbtProfiles
  \/ WriteProjectFiles
  \/ DbtStart
  \/ DbtRun
  \/ RunDbtReturn
  \/ GetDbCredentials
  \/ ForecastConnect
  \/ FetchAndPrepareData
  \/ RunProphetForecast
  \/ IngestForecastToDb
  \/ ForecastFinally

Spec == Init /\ [][Next]_vars

TypeOK ==
  /\ script \in Scripts \cup {"none"}
  /\ pc \in {"idle", "env", "connect", "create_table", "ingest_open", "ingest_loop",
              "finally", "profiles", "project_files", "dbt_start", "dbt_wait",
              "fetch", "fit", "publish", "done"}
  /\ exitCode \in {-1, 0, 1}
  /\ conn \in {"none", "open", "closed"}
  /\ idx \in 0..MaxBatch /\ dataLen \in 0..MaxBatch
  /\ pending \subseteq Records
  /\ rawRows \subseteq Records

\* ------------------------------------------------------------------ claims
StagesAfterConfig ==
  {"connect", "ingest", "transformation", "load", "fit", "publish"}

\* C1: a failing ingest_data call commits no row of its batch (the committed
\* rows of raw_saas_metrics equal those at the call's entry) and its
\* exception reaches the caller; the committed rows change only through the
\* commit that follows the last insert.
IngestAllOrNothing ==
  ingestState # "none" =>
    /\ ingestState = "running" => rawRows = batchBefore
    /\ ingestState = "failed" =>
         /\ rawRows = batchBefore
         /\ raised # "none"
         /\ failedStage = "ingest"
         /\ pc \in {"finally", "done"}
    /\ rawRows # batchBefore => ingestState = "committed" /\ idx = dataLen

\* C1 witness: a batch failed on a primary-key violation after at least one
\* of its rows had been inserted, with rows already committed before it.
IngestRolledBack ==
  /\ ingestState = "failed"
  /\ raised = "IntegrityError"
  /\ idx >= 1
  /\ rawRows # {}
  /\ pc = "done"

\* C2: in every script, a process started with one of the five DB_*
\* variables unset or empty ends with a non-zero status and has done no
\* network or file I/O.
MissingEnvExitsNonZero ==
  (pc = "done" /\ ~AllCredentials(env)) => (exitCode # 0 /\ io = {})

\* C3: a process in which no stage failed ends with status 0; a connection,
\* ingestion, transformation, load, fit or publish failure ends it with a
\* non-zero status.
ExitCodeReflectsFailure ==
  pc = "done" =>
    /\ failedStage = "none" => exitCode = 0
    /\ failedStage \in StagesAfterConfig => exitCode # 0

\* C4: when the mart query returns no row the loader fails and
\* run_prophet_forecast is never entered.
EmptySeriesNeverFitted ==
  fitEntered => Len(prophet_df) > 0

\* C5: after a successful ingest_forecast_to_db call the forecast table
\* holds exactly the rows of that call's forecast, none of an earlier one.
PublishOverwrites ==
  (script = "run_forecasting" /\ publishState = "done") =>
    /\ fcExists
    /\ Len(fcRows) = Len(forecast)
    /\ fcRows = FinalForecastDf(forecast)

\* C5 witness: a publish succeeded over a table that held an earlier
\* forecast of another size.
PublishedOverOtherSize ==
  /\ publishState = "done"
  /\ fcBefore.exists
  /\ Len(fcBefore.rows) > 0
  /\ Len(fcBefore.rows) # Len(fcRows)

\* C6: as long as ingest_forecast_to_db has not been called in a process,
\* the forecast table is as it was when the process started.
ForecastTableFrame ==
  publishState = "none" => (fcExists = fcBefore.exists /\ fcRows = fcBefore.rows)

\* C6 witness: a run_forecasting process failed before the publish step
\* while an earlier forecast was in the table.
FailedBeforePublish ==
  /\ script = "run_forecasting"
  /\ pc = "done"
  /\ failedStage \in {"connect", "load", "fit"}
  /\ publishState = "none"
  /\ fcBefore.exists
  /\ Len(fcRows) > 0

HorizonFollowsHistory ==
  forecast # <<>> =>
    LET n == Len(prophet_df)
        M == prophet_df[n].ds
    IN /\ Len(forecast) = n + Periods
       /\ \A i \in 1..n : forecast[i].ds = prophet_df[i].ds
       /\ \A k \in 1..Periods :
            LET f == forecast[n + k].ds
            IN /\ f.d = 1
               /\ f.m \in 1..12
               /\ MonthOrd(f) = MonthOrd(M) + k
               /\ DateLess(M, f)

\* C8 witness: a forecast made from a series whose last month is December.
ForecastFromDecember ==
  /\ forecast # <<>>
  /\ prophet_df[Len(prophet_df)].ds.m = 12

\* C9: when dbt exits with a non-zero status, the error raised by
\* run_dbt_pipeline carries dbt's diagnostic output, completion is not
\* reported and no forecasting step runs.
DbtErrorCarriesDiagnostics ==
  (script = "pipeline" /\ pc = "done" /\ dbtState = "exited" /\ dbtRc # 0) =>
    /\ raised = "CalledProcessError"
    /\ errOutput = dbtDiag
    /\ ~completed
    /\ ~fitEntered
    /\ publishState = "none"

\* C10: a create_table call raises nothing and yields the fixed schema; on
\* an existing table it changes neither the schema nor any committed row.
CreateTableIdempotent ==
  [][(pc = "create_table" /\ pc' # "create_table") =>
       /\ raised' = "none"
       /\ rawExists'
       /\ rawSchema' = RawSchema
       /\ rawExists => (rawSchema' = rawSchema /\ rawRows' = rawRows)]_vars

\* C10 witness: create_table has just returned on a table that held rows.
CreateTableOverRows ==
  /\ script = "database_setup"
  /\ pc = "ingest_open"
  /\ rawRows # {}

====
